---- MODULE Spec2Model ----
(***************************************************************************)
(* State-machine model of bin/generate-component-table.py: one run of      *)
(* main() over a directory tree, with the git collaborator as environment. *)
(* Strings are TLA+ strings (character sequences: Len, \o, SubSeq), paths  *)
(* are sequences of path components.                                       *)
(***************************************************************************)
EXTENDS Integers, Sequences, FiniteSets, TLC

VARIABLES
    sys_argv,    \* sys.argv: <<script, arg1, ...>>, every element a path
    cwd,         \* working directory of the process (inherited by git)
    tree,        \* file system: directory path -> [dirs, files] in listing order
    gitStatus,   \* the repository: file path -> XY status code ("" = clean)
    gitMode,     \* "ok", or how the git collaborator fails
    pc,          \* position in main(): "main", "walk", "exited"
    base_dir,    \* main's base_dir (<<>> before it is assigned)
    pending,     \* os.walk: directories still to be listed, next one first
    root,        \* os.walk: directory whose files are being iterated
    files,       \* os.walk: files of root not yet visited
    file_data,   \* categorize_files: the (state, name, type, path) tuples
    scanned,     \* log: one entry per detect_file_state call, in call order
    stdout,      \* the lines main has printed, one element per print()
    exit_code    \* process exit status, -1 while running

vars == <<sys_argv, cwd, tree, gitStatus, gitMode, pc, base_dir, pending,
          root, files, file_data, scanned, stdout, exit_code>>

---------------------------------------------------------------------------
(* Bounds of the model *)

MaxFiles == 2      \* files in a tree with free placement
MaxArgv == 4       \* largest len(sys.argv) tried

---------------------------------------------------------------------------
(* The static table, in dict insertion order *)

SALESFORCE_METADATA_TYPES_generic ==
  << <<"-meta.xml", "Metadata">>,
     <<".cls", "ApexClass">>,
     <<".cls-meta.xml", "ApexClass">>,
     <<".trigger", "ApexTrigger">>,
     <<".trigger-meta.xml", "ApexTrigger">>,
     <<".site-meta.xml", "SiteDotCom">> >>

SALESFORCE_METADATA_TYPES ==
  <<
     <<".cls", "ApexClass">>,
     <<".cls-meta.xml", "ApexClass">>,
     <<".trigger", "ApexTrigger">>,
     <<".trigger-meta.xml", "ApexTrigger">>,
     <<".component", "ApexComponent">>,
     <<".component-meta.xml", "ApexComponent">>,
     <<".page", "VisualforcePage">>,
     <<".page-meta.xml", "VisualforcePage">>,
     <<".cmp", "AuraComponent">>,
     <<".cmp-meta.xml", "AuraComponent">>,
     <<".evt", "AuraEvent">>,
     <<".evt-meta.xml", "AuraEvent">>,
     <<".app", "AuraApplication">>,
     <<".app-meta.xml", "AuraApplication">>,
     <<".design", "AuraDesign">>,
     <<".design-meta.xml", "AuraDesign">>,
     <<".js-meta.xml", "LightningWebComponent">>,
     <<".object-meta.xml", "CustomObject">>,
     <<".field-meta.xml", "CustomField">>,
     <<".tab-meta.xml", "CustomTab">>,
     <<".layout-meta.xml", "Layout">>,
     <<".listView-meta.xml", "ListView">>,
     <<".webLink-meta.xml", "WebLink">>,
     <<".fieldSet-meta.xml", "FieldSet">>,
     <<".profile-meta.xml", "Profile">>,
     <<".permissionset-meta.xml", "PermissionSet">>,
     <<".resource-meta.xml", "StaticResource">>,
     <<".flow-meta.xml", "Flow">>,
     <<".flowDefinition-meta.xml", "FlowDefinition">>,
     <<".email-meta.xml", "EmailTemplate">>,
     <<".report-meta.xml", "Report">>,
     <<".dashboard-meta.xml", "Dashboard">>,
     <<".customSite-meta.xml", "CustomSite">>,
     <<".assignmentRules-meta.xml", "AssignmentRules">>,
     <<".escalationRules-meta.xml", "EscalationRules">>,
     <<".remoteSite-meta.xml", "RemoteSiteSetting">>,
     <<".certificate-meta.xml", "Certificate">>,
     <<".labels-meta.xml", "CustomLabels">>,
     <<".recordType-meta.xml", "RecordType">>,
     <<".compactLayout-meta.xml", "CompactLayout">>,
     <<".connectedApp-meta.xml", "ConnectedApp">>,
     <<".translation-meta.xml", "Translations">>,
     <<".site-meta.xml", "SiteDotCom">>,
     <<".networkBranding-meta.xml", "NetworkBranding">>,
     <<".territory2Rule-meta.xml", "Territory2Rule">>,
     <<".territory2Type-meta.xml", "Territory2Type">>,
     <<".customPermission-meta.xml", "CustomPermission">>,
     <<".quickAction-meta.xml", "QuickAction">> >>

---------------------------------------------------------------------------
(* Python string and path primitives *)

\* str.endswith
endswith(s, suffix) ==
    /\ Len(suffix) <= Len(s)
    /\ SubSeq(s, Len(s) - Len(suffix) + 1, Len(s)) = suffix

\* str.startswith
startswith(s, prefix) ==
    /\ Len(prefix) <= Len(s)
    /\ SubSeq(s, 1, Len(prefix)) = prefix

Whitespace == {" ", "\n", "\t", "\r"}

RECURSIVE lstrip(_)
lstrip(s) ==
    IF s # "" /\ Head(s) \in Whitespace THEN lstrip(Tail(s)) ELSE s

RECURSIVE rstrip(_)
rstrip(s) ==
    IF s # "" /\ SubSeq(s, Len(s), Len(s)) \in Whitespace
    THEN rstrip(SubSeq(s, 1, Len(s) - 1))
    ELSE s

\* str.strip()
strip(s) == rstrip(lstrip(s))

\* s[:n] for n >= 0
Prefix(s, n) == IF Len(s) <= n THEN s ELSE SubSeq(s, 1, n)

\* sep.join(lines)
RECURSIVE join(_, _)
join(sep, lines) ==
    IF lines = <<>> THEN ""
    ELSE IF Len(lines) = 1 THEN lines[1]
    ELSE lines[1] \o sep \o join(sep, Tail(lines))

\* a relative path as the string Python handles: components joined by "/"
PathStr(p) == join("/", p)

\* an absolute path as a string
AbsStr(p) == "/" \o PathStr(p)

\* os.path.join(root, file)
path_join(dir, name) == Append(dir, name)

RECURSIVE CommonLen(_, _)
CommonLen(p, q) ==
    IF p # <<>> /\ q # <<>> /\ Head(p) = Head(q)
    THEN 1 + CommonLen(Tail(p), Tail(q))
    ELSE 0

\* os.path.relpath(path, start) on absolute paths: ".." for every component
\* of start outside the common prefix, then the rest of path
relpath(path, start) ==
    LET c == CommonLen(path, start)
    IN  [i \in 1..(Len(start) - c) |-> ".."] \o SubSeq(path, c + 1, Len(path))

\* os.path.isdir
isdir(p) == p \in DOMAIN tree

---------------------------------------------------------------------------
(* The file system and the repository the program runs against *)

Repo == <<"repo">>
Base == <<"repo", "src">>
Sub == <<"repo", "src", "sub">>
Deep == <<"repo", "src", "sub", "deep">>
Lib == <<"repo", "src", "lib">>
Missing == <<"repo", "nowhere">>
Script == <<"generate-component-table.py">>

DirSet == {Base, Sub, Deep, Lib}

\* sub-directories of each directory, in listing order
SubDirs(d) ==
    IF d = Base THEN <<"sub", "lib">>
    ELSE IF d = Sub THEN <<"deep">>
    ELSE <<>>

\* file names: every table key behind each stem, and names no key ends
Stems == {"", "Foo", "a.cls", "x|y"}

UnmatchedNames ==
    {"readme.txt", "cls", "Foo.CLS", "x.xml", "Foo-meta.xml", "Foo.cls ",
     "Foo.clsx", "a.Site-meta.xml"}

AllNames ==
    {stem \o SALESFORCE_METADATA_TYPES[i][1] :
        stem \in Stems, i \in DOMAIN SALESFORCE_METADATA_TYPES}
    \cup UnmatchedNames

SmallNames == {"Foo.cls", "readme.txt"}

\* XY codes of git status --porcelain ("" = clean, no line printed)
AllCodes == {"", "M ", " M", "MM", "A ", "AM", " A", "D ", " D", "R ", "??"}
SmallCodes == {"", " M"}

GitModes == {"ok", "absent", "ioerror", "notrepo"}

\* a file of the tree: its directory, its name, its status in the repository
Entry(d, n, xy) == [dir |-> d, name |-> n, xy |-> xy]

RECURSIVE FilesIn(_, _)
FilesIn(entries, d) ==
    IF entries = <<>> THEN <<>>
    ELSE (IF Head(entries).dir = d THEN <<Head(entries).name>> ELSE <<>>)
         \o FilesIn(Tail(entries), d)

TreeOf(entries) ==
    [d \in DirSet |-> [dirs |-> SubDirs(d), files |-> FilesIn(entries, d)]]

EntryPath(e) == path_join(e.dir, e.name)

StatusOf(entries) ==
    [p \in {EntryPath(entries[i]) : i \in DOMAIN entries} |->
        entries[CHOOSE i \in DOMAIN entries : EntryPath(entries[i]) = p].xy]

Distinct(entries) ==
    \A i, j \in DOMAIN entries :
        EntryPath(entries[i]) = EntryPath(entries[j]) => i = j

\* trees with up to MaxFiles files placed freely, one-file trees over every
\* name, one-file trees over every status code
FreeEntries ==
    {e \in UNION {[1..n -> {Entry(d, nm, xy) :
                     d \in DirSet, nm \in SmallNames, xy \in SmallCodes}] :
                  n \in 0..MaxFiles} : Distinct(e)}

NameEntries == {<<Entry(Base, nm, xy)>> : nm \in AllNames, xy \in SmallCodes}

CodeEntries == {<<Entry(d, "Foo.cls", xy)>> : d \in {Base, Sub}, xy \in AllCodes}

---------------------------------------------------------------------------
(* detect_file_state and the git collaborator *)

\* subprocess.run(["git", "status", "--porcelain", rel_path], ...): git runs
\* in the process's working directory and resolves rel_path against it.  A
\* missing executable or an I/O error raises; outside a repository git
\* writes to stderr only and exits with 128; a clean or unknown path prints
\* nothing; otherwise one line "XY path-from-repository-root".
git_status(rel_path) ==
    IF gitMode \in {"absent", "ioerror"}
    THEN [raised |-> TRUE, returncode |-> -1, stdout |-> ""]
    ELSE IF gitMode = "notrepo"
    THEN [raised |-> FALSE, returncode |-> 128, stdout |-> ""]
    ELSE LET target == cwd \o rel_path
             xy == IF target \in DOMAIN gitStatus THEN gitStatus[target] ELSE ""
         IN  [raised |-> FALSE, returncode |-> 0,
              stdout |-> IF xy = "" THEN ""
                         ELSE xy \o " " \o PathStr(relpath(target, Repo)) \o "\n"]

\* status_code = git_status.stdout.strip()[:2]
status_code_nostrip(out) == Prefix(out, 2)

status_code(out) == Prefix(strip(out), 2)

\* the value detect_file_state returns for the outcome of the git call
detect_file_state_unknown(run) ==
    IF run.raised THEN "Unknown"
    ELSE IF startswith(status_code(run.stdout), "A") THEN "Created"
    ELSE IF startswith(status_code(run.stdout), "M") THEN "Changed"
    ELSE "Unmodified"

detect_file_state(run) ==
    IF run.raised THEN "Unmodified"
    ELSE IF startswith(status_code(run.stdout), "A") THEN "Created"
    ELSE IF startswith(status_code(run.stdout), "M") THEN "Changed"
    ELSE "Unmodified"

---------------------------------------------------------------------------
(* categorize_files: the suffix lookup of one file name *)

\* index of the first table entry whose key ends the name, 0 if none
\* (matched_ext is None)
RECURSIVE FirstMatch(_, _)
FirstMatch(file, i) ==
    IF i > Len(SALESFORCE_METADATA_TYPES) THEN 0
    ELSE IF endswith(file, SALESFORCE_METADATA_TYPES[i][1]) THEN i
    ELSE FirstMatch(file, i + 1)

matched_ext(file) == FirstMatch(file, 1)

metadata_type(file) ==
    IF matched_ext(file) = 0 THEN ""
    ELSE SALESFORCE_METADATA_TYPES[matched_ext(file)][2]

\* file[:-len(matched_ext)] when an extension matched, else the full name
stripped_name_offbyone(file) ==
    IF matched_ext(file) = 0 THEN file
    ELSE Prefix(file, Len(file) - Len(SALESFORCE_METADATA_TYPES[matched_ext(file)][1]) + 1)

stripped_name(file) ==
    IF matched_ext(file) = 0 THEN file
    ELSE Prefix(file, Len(file) - Len(SALESFORCE_METADATA_TYPES[matched_ext(file)][1]))

---------------------------------------------------------------------------
(* generate_markdown_table *)

HeaderRow == "| State       | Name         | Type        | Path                     |"
SeparatorRow == "|-------------|--------------|-------------|--------------------------|"

\* f"| {row[0]} | {row[1]} | {row[2]} | {row[3]} |"
table_row(row) ==
    "| " \o row[1] \o " | " \o row[2] \o " | " \o row[3] \o " | " \o row[4] \o " |"

generate_markdown_table_swapped(data) ==
    join("\n", <<HeaderRow, SeparatorRow>>
               \o [i \in DOMAIN data |->
                     "| " \o data[i][1] \o " | " \o data[i][3] \o " | "
                          \o data[i][2] \o " | " \o data[i][4] \o " |"])

generate_markdown_table(data) ==
    join("\n", <<HeaderRow, SeparatorRow>>
               \o [i \in DOMAIN data |-> table_row(data[i])])

\* print_usage: two print() calls
UsageLines ==
    <<"Usage: python generate-component-table.py <directory>",
      "Scans a Salesforce source directory and generates a Markdown table.">>

ErrorLine(dir) == "Error: Directory '" \o AbsStr(dir) \o "' not found."

---------------------------------------------------------------------------
(* Initial states: an invocation, a tree, a repository *)

ArgvOfLen(n) == <<Script>> \o [i \in 1..(n - 1) |-> Base]

GoodInvocations ==
    {[argv |-> <<Script, arg>>, cwd |-> c, mode |-> m] :
        arg \in {Base, Sub}, c \in {Base, Repo}, m \in {"ok"}}
    \cup
    {[argv |-> <<Script, arg>>, cwd |-> Base, mode |-> m] :
        arg \in {Base, Sub}, m \in GitModes \ {"ok"}}

BadInvocations ==
    {[argv |-> a, cwd |-> Base, mode |-> "ok"] :
        a \in {ArgvOfLen(n) : n \in (1..MaxArgv) \ {2}}
              \cup {<<Script, Missing>>, <<Script, path_join(Base, "Foo.cls")>>}}

Init ==
    \E entries \in FreeEntries \cup NameEntries \cup CodeEntries,
       inv \in GoodInvocations \cup BadInvocations :
        /\ tree = TreeOf(entries)
        /\ gitStatus = StatusOf(entries)
        /\ sys_argv = inv.argv
        /\ cwd = inv.cwd
        /\ gitMode = inv.mode
        /\ pc = "main"
        /\ base_dir = <<>>
        /\ pending = <<>>
        /\ root = <<>>
        /\ files = <<>>
        /\ file_data = <<>>
        /\ scanned = <<>>
        /\ stdout = <<>>
        /\ exit_code = -1

env == <<sys_argv, cwd, tree, gitStatus, gitMode>>

---------------------------------------------------------------------------
(* main *)

Main_Usage_exit0 ==
    /\ pc = "main"
    /\ Len(sys_argv) # 2
    /\ stdout' = stdout \o UsageLines
    /\ exit_code' = 0
    /\ pc' = "exited"
    /\ UNCHANGED <<env, base_dir, pending, root, files, file_data, scanned>>

\* len(sys.argv) != 2: print_usage(); sys.exit(1)
Main_Usage ==
    /\ pc = "main"
    /\ Len(sys_argv) # 2
    /\ stdout' = stdout \o UsageLines
    /\ exit_code' = 1
    /\ pc' = "exited"
    /\ UNCHANGED <<env, base_dir, pending, root, files, file_data, scanned>>

\* not os.path.isdir(base_dir): print the error; sys.exit(1)
Main_NotDir ==
    /\ pc = "main"
    /\ Len(sys_argv) = 2
    /\ ~isdir(sys_argv[2])
    /\ base_dir' = sys_argv[2]
    /\ stdout' = Append(stdout, ErrorLine(sys_argv[2]))
    /\ exit_code' = 1
    /\ pc' = "exited"
    /\ UNCHANGED <<env, pending, root, files, file_data, scanned>>

\* categorize_files(base_dir) is entered: file_data = [], os.walk(base_dir)
Main_Scan ==
    /\ pc = "main"
    /\ Len(sys_argv) = 2
    /\ isdir(sys_argv[2])
    /\ base_dir' = sys_argv[2]
    /\ pending' = <<sys_argv[2]>>
    /\ pc' = "walk"
    /\ UNCHANGED <<env, root, files, file_data, scanned, stdout, exit_code>>

Walk_NextDir_flat ==
    /\ pc = "walk"
    /\ files = <<>>
    /\ pending # <<>>
    /\ root' = Head(pending)
    /\ files' = tree[Head(pending)].files
    /\ pending' = Tail(pending)
    /\ UNCHANGED <<env, pc, base_dir, file_data, scanned, stdout, exit_code>>

\* os.walk, top-down: the next directory is listed; its files are iterated
\* next and its sub-directories are walked before the directories already
\* waiting
Walk_NextDir ==
    /\ pc = "walk"
    /\ files = <<>>
    /\ pending # <<>>
    /\ root' = Head(pending)
    /\ files' = tree[Head(pending)].files
    /\ pending' = [i \in DOMAIN tree[Head(pending)].dirs |->
                      path_join(Head(pending), tree[Head(pending)].dirs[i])]
                  \o Tail(pending)
    /\ UNCHANGED <<env, pc, base_dir, file_data, scanned, stdout, exit_code>>

Walk_File_excluding ==
    /\ pc = "walk"
    /\ files # <<>>
    /\ LET file == Head(files)
           file_path == path_join(root, file)
           rel_path == relpath(file_path, base_dir)
           run == git_status(rel_path)
           state == detect_file_state(run)
           relative_path == PathStr(relpath(file_path, base_dir))
       IN  /\ file_data' =
                IF matched_ext(file) = 0 THEN file_data
                ELSE Append(file_data, <<state, stripped_name(file),
                                         metadata_type(file), relative_path>>)
           /\ scanned' = Append(scanned,
                            [file |-> file, file_path |-> file_path,
                             rel_path |-> rel_path, run |-> run,
                             state |-> state])
    /\ files' = Tail(files)
    /\ UNCHANGED <<env, pc, base_dir, pending, root, stdout, exit_code>>

\* the body of "for file in files": classify the name, ask git, append the
\* tuple
Walk_File ==
    /\ pc = "walk"
    /\ files # <<>>
    /\ LET file == Head(files)
           file_path == path_join(root, file)
           rel_path == relpath(file_path, base_dir)
           run == git_status(rel_path)
           state == detect_file_state(run)
           relative_path == PathStr(relpath(file_path, base_dir))
       IN  /\ file_data' = Append(file_data, <<state, stripped_name(file),
                                               metadata_type(file), relative_path>>)
           /\ scanned' = Append(scanned,
                            [file |-> file, file_path |-> file_path,
                             rel_path |-> rel_path, run |-> run,
                             state |-> state])
    /\ files' = Tail(files)
    /\ UNCHANGED <<env, pc, base_dir, pending, root, stdout, exit_code>>

Main_Print_early ==
    /\ pc = "walk"
    /\ files = <<>>
    /\ root # <<>>
    /\ stdout' = Append(stdout, generate_markdown_table(file_data))
    /\ exit_code' = 0
    /\ pc' = "exited"
    /\ UNCHANGED <<env, base_dir, pending, root, files, file_data, scanned>>

\* the walk is exhausted: categorize_files returns, the table is rendered
\* and printed, main returns (exit status 0)
Main_Print ==
    /\ pc = "walk"
    /\ files = <<>>
    /\ pending = <<>>
    /\ stdout' = Append(stdout, generate_markdown_table(file_data))
    /\ exit_code' = 0
    /\ pc' = "exited"
    /\ UNCHANGED <<env, base_dir, pending, root, files, file_data, scanned>>

Next ==
    \/ Main_Usage
    \/ Main_NotDir
    \/ Main_Scan
    \/ Walk_NextDir
    \/ Walk_File
    \/ Main_Print

Spec == Init /\ [][Next]_vars

---------------------------------------------------------------------------
(* Vocabulary of the properties, defined apart from the program's operators *)

Keys == {SALESFORCE_METADATA_TYPES[k][1] : k \in DOMAIN SALESFORCE_METADATA_TYPES}

\* key is the text of name from some position to its end
IsSuffix(key, name) ==
    /\ Len(name) >= Len(key)
    /\ SubSeq(name, Len(name) - Len(key) + 1, Len(name)) = key

\* no key of the table is the tail of another key
NoKeyEndsAnother == \A a, b \in Keys : a # b => ~IsSuffix(a, b)

\* positions of the table whose key ends the name
MatchingKeys(name) ==
    {k \in DOMAIN SALESFORCE_METADATA_TYPES :
        IsSuffix(SALESFORCE_METADATA_TYPES[k][1], name)}

FirstKey(name) ==
    CHOOSE k \in MatchingKeys(name) : \A j \in MatchingKeys(name) : k <= j

\* the run got past both argument checks
ValidInvocation == Len(sys_argv) = 2 /\ sys_argv[2] \in DOMAIN tree

Succeeded == pc = "exited" /\ exit_code = 0

IsPrefixPath(d, p) == Len(d) <= Len(p) /\ SubSeq(p, 1, Len(d)) = d

\* every regular file below directory b, at any depth
FilesUnder(b) ==
    UNION {{Append(d, tree[d].files[i]) : i \in DOMAIN tree[d].files} :
              d \in {x \in DOMAIN tree : IsPrefixPath(b, x)}}

\* discovery order of a top-down walk: a directory's own files, then each
\* sub-directory's whole subtree in listing order
RECURSIVE Discover(_)
Discover(ds) ==
    IF ds = <<>> THEN <<>>
    ELSE [i \in DOMAIN tree[Head(ds)].files |->
             Append(Head(ds), tree[Head(ds)].files[i])]
         \o Discover([i \in DOMAIN tree[Head(ds)].dirs |->
                        Append(Head(ds), tree[Head(ds)].dirs[i])])
         \o Discover(Tail(ds))

\* first character of s that is not white space, "" if there is none
RECURSIVE FirstVisible(_)
FirstVisible(s) ==
    IF s = "" THEN ""
    ELSE IF Head(s) \in {" ", "\n", "\t", "\r"} THEN FirstVisible(Tail(s))
    ELSE Head(s)

\* the label a status line stands for, read at its first visible character
LabelOf(out) ==
    IF FirstVisible(out) = "A" THEN "Created"
    ELSE IF FirstVisible(out) = "M" THEN "Changed"
    ELSE "Unmodified"

\* the label read at the first character of the two-character code itself
LabelOfCode(xy) ==
    IF xy # "" /\ Head(xy) = "A" THEN "Created"
    ELSE IF xy # "" /\ Head(xy) = "M" THEN "Changed"
    ELSE "Unmodified"

\* status code of a file in the repository ("" when clean or unknown)
CodeIn(p) == IF p \in DOMAIN gitStatus THEN gitStatus[p] ELSE ""

RowText(r) ==
    "| " \o r[1] \o " | " \o r[2] \o " | " \o r[3] \o " | " \o r[4] \o " |"

\* header, separator, then the rows, built from the last row backwards
RECURSIVE ExpectedTable(_)
ExpectedTable(data) ==
    IF data = <<>>
    THEN "| State       | Name         | Type        | Path                     |"
         \o "\n"
         \o "|-------------|--------------|-------------|--------------------------|"
    ELSE ExpectedTable(SubSeq(data, 1, Len(data) - 1))
         \o "\n" \o RowText(data[Len(data)])

---------------------------------------------------------------------------
(* The properties *)

\* C1: every scanned file whose name ends with at least one table key has a
\* record carrying the category of the first such key in table order, and a
\* display name that, followed by that key, is the file name (the display
\* name is empty when the name is the key itself).
C1_KnownSuffix ==
    \A i \in DOMAIN scanned :
        MatchingKeys(scanned[i].file) # {} =>
            /\ i \in DOMAIN file_data
            /\ file_data[i][3] =
                 SALESFORCE_METADATA_TYPES[FirstKey(scanned[i].file)][2]
            /\ file_data[i][2]
                 \o SALESFORCE_METADATA_TYPES[FirstKey(scanned[i].file)][1]
               = scanned[i].file

\* a file named exactly like a key was recorded with an empty display name
C1_Witness ==
    /\ Succeeded
    /\ \E i \in DOMAIN scanned :
        /\ scanned[i].file = ".cls-meta.xml"
        /\ file_data[i][2] = ""
        /\ file_data[i][3] = "ApexClass"

\* C2: every scanned file whose name ends with no table key has a record
\* with an empty category and the full file name as display name, and no
\* scanned file is left without a record.
C2_UnknownSuffix ==
    /\ Len(file_data) = Len(scanned)
    /\ \A i \in DOMAIN scanned :
        MatchingKeys(scanned[i].file) = {} =>
            /\ i \in DOMAIN file_data
            /\ file_data[i][2] = scanned[i].file
            /\ file_data[i][3] = ""

C2_Witness ==
    /\ Succeeded
    /\ \E i \in DOMAIN file_data :
        /\ scanned[i].file = "readme.txt"
        /\ file_data[i][2] = "readme.txt"
        /\ file_data[i][3] = ""
        /\ Len(scanned[i].file_path) > Len(base_dir) + 1

\* C3: when the scan of a tree holding N regular files has returned, there
\* are exactly N records, the i-th record is the i-th file in top-down
\* discovery order, and no file occurs twice.
C3_OnePerFile ==
    Succeeded =>
        /\ Len(file_data) = Cardinality(FilesUnder(base_dir))
        /\ Len(file_data) = Len(Discover(<<base_dir>>))
        /\ \A i \in DOMAIN file_data :
            PathStr(base_dir) \o "/" \o file_data[i][4]
              = PathStr(Discover(<<base_dir>>)[i])
        /\ \A i, j \in DOMAIN file_data :
            file_data[i][4] = file_data[j][4] => i = j

\* two files, one of them two directories down, were both recorded
C3_Witness ==
    /\ Succeeded
    /\ base_dir = Base
    /\ Len(file_data) = 2
    /\ tree[Deep].files # <<>>
    /\ tree[Lib].files # <<>>

\* C4: the run ends with the table on standard output and status 0 exactly
\* when it got one argument naming a directory; with another argument count
\* it ends with the usage text and status 1, with a non-directory argument
\* with the error line and status 1, and in both failing cases no file is
\* scanned and no table is printed.
C4_ExitCodes ==
    /\ ~ValidInvocation => scanned = <<>> /\ file_data = <<>> /\ pending = <<>>
    /\ pc # "exited" => exit_code = -1 /\ stdout = <<>>
    /\ pc = "exited" =>
        /\ exit_code \in {0, 1}
        /\ exit_code = 0 <=> ValidInvocation
        /\ ValidInvocation =>
             /\ Len(stdout) = 1
             /\ Len(stdout[1]) >= Len(HeaderRow)
             /\ SubSeq(stdout[1], 1, Len(HeaderRow)) = HeaderRow
        /\ Len(sys_argv) # 2 =>
             stdout = <<"Usage: python generate-component-table.py <directory>",
                        "Scans a Salesforce source directory and generates a Markdown table.">>
        /\ (Len(sys_argv) = 2 /\ sys_argv[2] \notin DOMAIN tree) =>
             /\ Len(stdout) = 1
             /\ SubSeq(stdout[1], 1, 18) = "Error: Directory '"

\* two arguments over a tree that holds files: usage, status 1
C4_Witness ==
    /\ pc = "exited"
    /\ Len(sys_argv) = 3
    /\ exit_code = 1
    /\ \E d \in DOMAIN tree : tree[d].files # <<>>

\* C5: when git cannot be used, every recorded state is Unmodified, and a
\* run that got a directory still ends with status 0 and one record for
\* every file.
C5_GitUnavailable ==
    gitMode # "ok" =>
        /\ \A i \in DOMAIN file_data : file_data[i][1] = "Unmodified"
        /\ \A i \in DOMAIN scanned : scanned[i].state = "Unmodified"
        /\ (pc = "exited" /\ ValidInvocation) =>
             /\ exit_code = 0
             /\ Len(file_data) = Cardinality(FilesUnder(base_dir))
             /\ Len(stdout) = 1

\* git is missing and a file that is modified in the repository was recorded
C5_Witness ==
    /\ Succeeded
    /\ gitMode = "absent"
    /\ \E i \in DOMAIN scanned :
        /\ CodeIn(scanned[i].file_path) = " M"
        /\ scanned[i].run.raised
        /\ file_data[i][1] = "Unmodified"

C7_SameFile ==
    gitMode = "ok" =>
        \A i \in DOMAIN scanned :
            scanned[i].state = LabelOf(CodeIn(scanned[i].file_path))

\* C8: the printed table is the header row, the separator row and one row
\* per record in sequence order, each row holding the record's four fields
\* verbatim between the pipes, joined by newlines.
C8_TableShape ==
    Succeeded => stdout = <<ExpectedTable(file_data)>>

\* a table of two rows was printed, the second for a nested file
C8_Witness ==
    /\ Succeeded
    /\ Len(file_data) = 2
    /\ Len(stdout[1]) > 2 * Len(HeaderRow) + 2
    /\ file_data[2][4] # file_data[2][2]

\* C9: git is asked once per file, in discovery order and about that file's
\* path relative to the scan root; a record follows every query; nothing is
\* printed before the last file's query and record.
C9_QueryOrder ==
    /\ Len(scanned) = Len(file_data)
    /\ \A i \in DOMAIN scanned :
        /\ i <= Len(Discover(<<base_dir>>))
        /\ scanned[i].file_path = Discover(<<base_dir>>)[i]
        /\ base_dir \o scanned[i].rel_path = scanned[i].file_path
    /\ (ValidInvocation /\ stdout # <<>>) =>
        /\ pc = "exited"
        /\ Len(scanned) = Len(Discover(<<base_dir>>))

\* two queries were made before the table was printed
C9_Witness ==
    /\ Succeeded
    /\ Len(scanned) = 2
    /\ scanned[1].file_path # scanned[2].file_path
    /\ Len(stdout) = 1

\* C10: no key of the table is a proper suffix of another key, so a file
\* name ends with at most one key and every matching key gives the recorded
\* category and display name, whatever the order of the table.
C10_NoMasking ==
    /\ NoKeyEndsAnother
    /\ \A i \in DOMAIN file_data :
        /\ Cardinality(MatchingKeys(scanned[i].file)) <= 1
        /\ \A k \in MatchingKeys(scanned[i].file) :
            /\ file_data[i][3] = SALESFORCE_METADATA_TYPES[k][2]
            /\ file_data[i][2] \o SALESFORCE_METADATA_TYPES[k][1]
               = scanned[i].file

\* a name ending in ".customSite-meta.xml" was not taken for ".site-meta.xml"
C10_Witness ==
    \E i \in DOMAIN file_data :
        /\ scanned[i].file = "Foo.customSite-meta.xml"
        /\ file_data[i][2] = "Foo"
        /\ file_data[i][3] = "CustomSite"

====
